---- MODULE Spec2Model ----
(***************************************************************************)
(* Generation orchestration layer of mistralrs-example:                    *)
(*   - CliChat (src/src/cli_chat.rs): a chat session with replayed history *)
(*   - PromptEnhancer (src/src/promp_enhancer.rs): seed -> enhance ->      *)
(*     quality gate -> truncate_to_words                                   *)
(*   - the model presets and the interactive loop of cli_chat::run         *)
(*   - AudioTranscriber (src/src/audio_transcription.rs)                   *)
(*   - image_generation::run (src/src/image_generation.rs)                 *)
(* Text is modelled as a sequence of one-character strings, so that trim,  *)
(* split_whitespace, join and len are computed and not assumed.            *)
(***************************************************************************)
EXTENDS Integers, Sequences, FiniteSets, TLC

VARIABLES
    chat,           \* session -> the CliChat struct
    pc,             \* session -> "idle" | "awaiting" (suspended in send)
    user_message,   \* session -> Option<text>: argument of the send in progress
    request,        \* session -> Option<request>: the request send submitted
    response,       \* session -> outcome of send_chat_request, once it arrived
    ret,            \* session -> value the last finished send returned
    nSends,         \* session -> successful sends since construction / last clear
    lastOp,         \* session -> "new" | "send" | "clear": last operation started
    enhancer,       \* the PromptEnhancer struct
    e_pc,           \* "idle" | "awaiting" (suspended in enhance)
    seed_prompt,    \* Option<text>: argument of the current / last enhance call
    e_request,      \* Option<request>: the request enhance submitted
    e_response,     \* outcome of send_chat_request of the current / last call
    e_ret,          \* value the last finished enhance returned
    t_text,         \* truncate_to_words argument text
    t_max_words,    \* truncate_to_words argument max_words
    t_out,          \* Option<text>: what truncate_to_words returned
    song_args,      \* Option<[song_title, style]>: arguments of enhance_for_song
    run_model,      \* Option<EnhancerModel>: argument of cli_chat::run
    run_built,      \* Option<builder>: the builder build_model ran for the session
    loop_pc,        \* "load" | "prompt" | "sending" | "exited" | "failed"
    loop_line,      \* what read_line put into `input` last
    lines_read,     \* calls of read_line that returned so far
    run_ret,        \* value cli_chat::run returned
    transcriber,    \* the AudioTranscriber struct
    tr_pc,          \* "idle" | "awaiting" (suspended in transcribe_audio)
    tr_bytes,       \* audio_bytes of the current / last transcribe_bytes call
    tr_user_prompt, \* Option<text>: user_prompt of the current / last call
    tr_request,     \* Option<request>: the request transcribe_audio submitted
    tr_response,    \* outcome of send_chat_request of the current / last call
    tr_elapsed,     \* inference_elapsed in milliseconds
    tr_ret,         \* value the last finished transcribe_bytes returned
    tr_log,         \* stages of the current / last call that succeeded, in order
    img_prompt,     \* Option<text>: argument prompt of image_generation::run
    img_seed,       \* Option<text>: argument seed
    img_enhancer_model, \* Option<EnhancerModel>: argument enhancer_model
    img_pc,         \* position of image_generation::run
    img_text,       \* Option<text>: the local `prompt` once it is resolved
    img_generated,  \* Option<text>: the text generate_image was called with
    img_ret         \* value image_generation::run returned

chatVars == << chat, pc, user_message, request, response, ret, nSends, lastOp >>

enhancerVars == << enhancer, e_pc, seed_prompt, e_request, e_response, e_ret >>

truncateVars == << t_text, t_max_words, t_out >>

songVars == << song_args >>

runVars == << run_model, run_built, loop_pc, loop_line, lines_read, run_ret >>

transcribeVars ==
    << transcriber, tr_pc, tr_bytes, tr_user_prompt, tr_request, tr_response,
       tr_elapsed, tr_ret, tr_log >>

imageVars ==
    << img_prompt, img_seed, img_enhancer_model, img_pc, img_text,
       img_generated, img_ret >>

vars ==
    << chatVars, enhancerVars, truncateVars, songVars, runVars, transcribeVars,
       imageVars >>

\* what the chat session leaves alone; the locals of cli_chat::run are set by
\* the step of the loop that calls into the session
notChatVars == << enhancerVars, truncateVars, songVars, transcribeVars, imageVars >>

\* what the prompt enhancer leaves alone; the arguments of enhance_for_song are
\* set by the step that calls enhance
notEnhancerVars == << chatVars, truncateVars, runVars, transcribeVars, imageVars >>

\* what a bare truncate_to_words call leaves alone
notTruncateVars ==
    << chatVars, enhancerVars, songVars, runVars, transcribeVars, imageVars >>

\* what the transcriber leaves alone
notTranscribeVars ==
    << chatVars, enhancerVars, truncateVars, songVars, runVars, imageVars >>

-----------------------------------------------------------------------------
(* Bounds of the model *)

\* sends a session may hold in its history before the model stops sending
MaxSends == 2

\* two independent sessions, each owning its model handle and its history
Sessions == { "A", "B" }

-----------------------------------------------------------------------------
(* Text *)

\* char::is_whitespace, restricted to the characters the model uses
Whitespace == { " ", "\n" }

IsWhitespace(c) == c \in Whitespace

RECURSIVE TrimStart(_)
TrimStart(s) ==
    IF s = << >> THEN << >>
    ELSE IF IsWhitespace(Head(s)) THEN TrimStart(Tail(s))
    ELSE s

RECURSIVE TrimEnd(_)
TrimEnd(s) ==
    IF s = << >> THEN << >>
    ELSE IF IsWhitespace(s[Len(s)]) THEN TrimEnd(SubSeq(s, 1, Len(s) - 1))
    ELSE s

\* str::trim
Trim(s) == TrimEnd(TrimStart(s))

\* Option<T>
None == [some |-> FALSE]

Some(v) == [some |-> TRUE, val |-> v]

-----------------------------------------------------------------------------
(* Chat session: src/src/cli_chat.rs *)

\* the system prompt from_preset uses when the caller gives none
DefaultChatSystemPrompt ==
    << "Y", "o", "u", " ", "a", "r", "e", " ", "a", " ", "h", "e", "l", "p",
       "f", "u", "l", ",", " ", "c", "o", "n", "c", "i", "s", "e", " ", "a",
       "s", "s", "i", "s", "t", "a", "n", "t", ".", " ", "A", "n", "s", "w",
       "e", "r", " ", "c", "l", "e", "a", "r", "l", "y", " ", "a", "n", "d",
       " ", "a", "c", "c", "u", "r", "a", "t", "e", "l", "y", "." >>

\* the assistant text send stores when the response carries no content
EmptyResponseText ==
    << "(", "e", "m", "p", "t", "y", " ", "r", "e", "s", "p", "o", "n", "s",
       "e", ")" >>

\* sampler settings of from_preset: temperature 0.7 and top_p 0.95 in
\* hundredths, max_len in tokens
ChatTemperature == 70

ChatTopP == 95

ChatMaxLen == 512

ChatTurn(role, content) == [role |-> role, content |-> content]

\* CliChat::from_preset, after build_model succeeded with handle `loaded`
from_preset(loaded, system_prompt) ==
    [ model         |-> loaded,
      system_prompt |-> IF system_prompt.some THEN system_prompt.val
                        ELSE DefaultChatSystemPrompt,
      history       |-> << >>,
      temperature   |-> ChatTemperature,
      top_p         |-> ChatTopP,
      max_len       |-> ChatMaxLen ]

\* RequestBuilder::new()
RequestBuilder_new ==
    [ temperature |-> None, top_p |-> None, max_len |-> None, messages |-> << >> ]

\* RequestBuilder::add_message
add_message(req, role, text) ==
    [req EXCEPT !.messages = Append(@, ChatTurn(role, text))]

\* mutant of ReplayHistory: replays the newest turn first
RECURSIVE ReplayNewestFirst(_, _)
ReplayNewestFirst(req, turns) ==
    IF turns = << >> THEN req
    ELSE ReplayNewestFirst(add_message(req, turns[Len(turns)].role,
                                       turns[Len(turns)].content),
                           SubSeq(turns, 1, Len(turns) - 1))

\* for turn in &self.history { request = request.add_message(..) }
RECURSIVE ReplayHistory(_, _)
ReplayHistory(req, turns) ==
    IF turns = << >> THEN req
    ELSE ReplayHistory(add_message(req, Head(turns).role, Head(turns).content),
                       Tail(turns))

\* mutant of BuildChatRequest: max_len is set only for the first request of a
\* conversation
BuildChatRequestMaxLenOnce(c, msg) ==
    LET base == [RequestBuilder_new EXCEPT
                    !.temperature = Some(c.temperature),
                    !.top_p = Some(c.top_p),
                    !.max_len = IF c.history = << >> THEN Some(c.max_len)
                                ELSE None]
        sys == add_message(base, "System", c.system_prompt)
        replayed == ReplayHistory(sys, c.history)
    IN  add_message(replayed, "User", msg)

\* The request CliChat::send builds from the session `c` and the new text
BuildChatRequest(c, msg) ==
    LET base == [RequestBuilder_new EXCEPT
                    !.temperature = Some(c.temperature),
                    !.top_p = Some(c.top_p),
                    !.max_len = Some(c.max_len)]
        sys == add_message(base, "System", c.system_prompt)
        replayed == ReplayHistory(sys, c.history)
    IN  add_message(replayed, "User", msg)

\* response.choices[0].message.content ... trim ... unwrap_or_else
AssistantText(content) ==
    IF content.some THEN Trim(content.val) ELSE EmptyResponseText

\* mutant of PersistTurns: the assistant turn is pushed before the user turn
PersistAssistantFirst(history, msg, assistant) ==
    Append(Append(history, ChatTurn("Assistant", assistant)),
           ChatTurn("User", msg))

\* the two pushes that persist a finished exchange
PersistTurns(history, msg, assistant) ==
    Append(Append(history, ChatTurn("User", msg)),
           ChatTurn("Assistant", assistant))

NoResponse == [kind |-> "none"]

ResponseErr == [kind |-> "err"]

ResponseOk(content) == [kind |-> "ok", content |-> content]

NoRet == [kind |-> "none"]

RetErr == [kind |-> "err"]

RetOk(text) == [kind |-> "ok", text |-> text]

(* Inputs of the chat model *)

CustomSystemPrompt == << "B", "e", " ", "b", "r", "i", "e", "f", "." >>

SystemPromptArgs == { None, Some(CustomSystemPrompt) }

UserTexts == { << "h", "i" >>, << " ", "y", "o", " " >> }

\* message.content of the first choice: absent, or text with padding
ResponseContents == { None, Some(<< " ", "o", "k", "\n" >>) }

\* the handle build_model returns: an opaque instance owned by one session
LoadedModel(s) == [instance |-> s]

ChatInit ==
    /\ \E sp \in [Sessions -> SystemPromptArgs] :
           chat = [s \in Sessions |-> from_preset(LoadedModel(s), sp[s])]
    /\ pc = [s \in Sessions |-> "idle"]
    /\ user_message = [s \in Sessions |-> None]
    /\ request = [s \in Sessions |-> None]
    /\ response = [s \in Sessions |-> NoResponse]
    /\ ret = [s \in Sessions |-> NoRet]
    /\ nSends = [s \in Sessions |-> 0]
    /\ lastOp = [s \in Sessions |-> "new"]

\* mutant of SendBegin: the user turn is pushed before the await
SendBeginPushesUser(s, msg) ==
    /\ pc[s] = "idle"
    /\ Len(chat[s].history) < 2 * MaxSends
    /\ request' = [request EXCEPT ![s] = Some(BuildChatRequest(chat[s], msg))]
    /\ chat' = [chat EXCEPT ![s].history = Append(@, ChatTurn("User", msg))]
    /\ user_message' = [user_message EXCEPT ![s] = Some(msg)]
    /\ response' = [response EXCEPT ![s] = NoResponse]
    /\ ret' = [ret EXCEPT ![s] = NoRet]
    /\ pc' = [pc EXCEPT ![s] = "awaiting"]
    /\ lastOp' = [lastOp EXCEPT ![s] = "send"]
    /\ UNCHANGED << nSends, notChatVars >>

\* mutant of SendBegin: a second send starts while the first one is suspended
SendBeginWhileAwaiting(s, msg) ==
    /\ Len(chat[s].history) < 2 * MaxSends
    /\ request' = [request EXCEPT ![s] = Some(BuildChatRequest(chat[s], msg))]
    /\ user_message' = [user_message EXCEPT ![s] = Some(msg)]
    /\ response' = [response EXCEPT ![s] = NoResponse]
    /\ ret' = [ret EXCEPT ![s] = NoRet]
    /\ pc' = [pc EXCEPT ![s] = "awaiting"]
    /\ lastOp' = [lastOp EXCEPT ![s] = "send"]
    /\ UNCHANGED << chat, nSends, notChatVars >>

\* send, up to the await: the request is built and submitted
SendBegin(s, msg) ==
    /\ pc[s] = "idle"
    /\ Len(chat[s].history) < 2 * MaxSends
    /\ request' = [request EXCEPT ![s] = Some(BuildChatRequest(chat[s], msg))]
    /\ user_message' = [user_message EXCEPT ![s] = Some(msg)]
    /\ response' = [response EXCEPT ![s] = NoResponse]
    /\ ret' = [ret EXCEPT ![s] = NoRet]
    /\ pc' = [pc EXCEPT ![s] = "awaiting"]
    /\ lastOp' = [lastOp EXCEPT ![s] = "send"]
    /\ UNCHANGED << chat, nSends, notChatVars >>

\* the runtime finishes the inference call with a result or an error
InferenceReply(s, r) ==
    /\ pc[s] = "awaiting"
    /\ response[s] = NoResponse
    /\ response' = [response EXCEPT ![s] = r]
    /\ UNCHANGED << chat, pc, user_message, request, ret, nSends, lastOp,
                    notChatVars >>

\* mutant of SendFailed: the user turn is kept although the call failed
SendFailedKeepsUserTurn(s) ==
    /\ pc[s] = "awaiting"
    /\ response[s] = ResponseErr
    /\ chat' = [chat EXCEPT ![s].history =
                   Append(@, ChatTurn("User", user_message[s].val))]
    /\ ret' = [ret EXCEPT ![s] = RetErr]
    /\ pc' = [pc EXCEPT ![s] = "idle"]
    /\ user_message' = [user_message EXCEPT ![s] = None]
    /\ request' = [request EXCEPT ![s] = None]
    /\ response' = [response EXCEPT ![s] = NoResponse]
    /\ UNCHANGED << nSends, lastOp, notChatVars >>

\* send resumes with Err: `?` returns it before anything is pushed
SendFailed(s) ==
    /\ pc[s] = "awaiting"
    /\ response[s] = ResponseErr
    /\ ret' = [ret EXCEPT ![s] = RetErr]
    /\ pc' = [pc EXCEPT ![s] = "idle"]
    /\ user_message' = [user_message EXCEPT ![s] = None]
    /\ request' = [request EXCEPT ![s] = None]
    /\ response' = [response EXCEPT ![s] = NoResponse]
    /\ UNCHANGED << chat, nSends, lastOp, notChatVars >>

\* mutant of SendCompleted: the exchange is pushed to every session's history
SendCompletedSharedHistory(s) ==
    /\ pc[s] = "awaiting"
    /\ response[s].kind = "ok"
    /\ LET assistant == AssistantText(response[s].content)
       IN  /\ chat' = [t \in Sessions |->
                          [chat[t] EXCEPT !.history =
                              PersistTurns(@, user_message[s].val, assistant)]]
           /\ ret' = [ret EXCEPT ![s] = RetOk(assistant)]
    /\ nSends' = [nSends EXCEPT ![s] = @ + 1]
    /\ pc' = [pc EXCEPT ![s] = "idle"]
    /\ user_message' = [user_message EXCEPT ![s] = None]
    /\ request' = [request EXCEPT ![s] = None]
    /\ response' = [response EXCEPT ![s] = NoResponse]
    /\ UNCHANGED << lastOp, notChatVars >>

\* send resumes with Ok: both turns are pushed and the text is returned
SendCompleted(s) ==
    /\ pc[s] = "awaiting"
    /\ response[s].kind = "ok"
    /\ LET assistant == AssistantText(response[s].content)
       IN  /\ chat' = [chat EXCEPT ![s].history =
                          PersistTurns(@, user_message[s].val, assistant)]
           /\ ret' = [ret EXCEPT ![s] = RetOk(assistant)]
    /\ nSends' = [nSends EXCEPT ![s] = @ + 1]
    /\ pc' = [pc EXCEPT ![s] = "idle"]
    /\ user_message' = [user_message EXCEPT ![s] = None]
    /\ request' = [request EXCEPT ![s] = None]
    /\ response' = [response EXCEPT ![s] = NoResponse]
    /\ UNCHANGED << lastOp, notChatVars >>

\* mutant of Clear: the session is reset to its defaults, prompt included
ClearResetsSystemPrompt(s) ==
    /\ pc[s] = "idle"
    /\ chat' = [chat EXCEPT ![s].history = << >>,
                            ![s].system_prompt = DefaultChatSystemPrompt]
    /\ nSends' = [nSends EXCEPT ![s] = 0]
    /\ lastOp' = [lastOp EXCEPT ![s] = "clear"]
    /\ UNCHANGED << pc, user_message, request, response, ret, notChatVars >>

\* CliChat::clear; &mut self keeps it from running while a send is suspended
Clear(s) ==
    /\ pc[s] = "idle"
    /\ chat' = [chat EXCEPT ![s].history = << >>]
    /\ nSends' = [nSends EXCEPT ![s] = 0]
    /\ lastOp' = [lastOp EXCEPT ![s] = "clear"]
    /\ UNCHANGED << pc, user_message, request, response, ret, notChatVars >>

ChatNext ==
    \/ \E s \in Sessions, msg \in UserTexts :
           SendBegin(s, msg) /\ UNCHANGED runVars
    \/ \E s \in Sessions, r \in { ResponseErr } \cup
                                { ResponseOk(c) : c \in ResponseContents } :
           InferenceReply(s, r) /\ UNCHANGED runVars
    \/ \E s \in Sessions : SendFailed(s) /\ UNCHANGED runVars
    \/ \E s \in Sessions : SendCompleted(s) /\ UNCHANGED runVars
    \/ \E s \in Sessions : Clear(s) /\ UNCHANGED runVars

-----------------------------------------------------------------------------
(* Prompt enhancer: src/src/promp_enhancer.rs *)

\* Conservative word-count ceiling of an enhanced prompt
MAX_PROMPT_WORDS == 50

\* the slack of the quality gate: `enhanced.len() <= seed_prompt.len() + 4`
FallbackSlack == 4

\* sampler settings of enhance: temperature 0.9 and top_p 0.95 in hundredths,
\* max_len in tokens
EnhanceTemperature == 90

EnhanceTopP == 95

EnhanceMaxLen == 80

\* the enhancer's built-in system instruction
SYSTEM_PROMPT ==
    << "Y", "o", "u", " ", "a", "r", "e", " ", "a", " ", "p", "r", "o", "m",
       "p", "t", " ", "e", "n", "h", "a", "n", "c", "e", "r", " ", "f", "o",
       "r", " ", "i", "m", "a", "g", "e", " ", "g", "e", "n", "e", "r", "a",
       "t", "i", "o", "n", " ", "m", "o", "d", "e", "l", "s", ".", " ", "G",
       "i", "v", "e", "n", " ", "a", " ", "s", "h", "o", "r", "t", " ", "d",
       "e", "s", "c", "r", "i", "p", "t", "i", "o", "n", ",", " ", "e", "x",
       "p", "a", "n", "d", " ", "i", "t", " ", "i", "n", "t", "o", " ", "a",
       " ", "v", "i", "v", "i", "d", " ", "i", "m", "a", "g", "e", " ", "g",
       "e", "n", "e", "r", "a", "t", "i", "o", "n", " ", "p", "r", "o", "m",
       "p", "t", ".", " ", "K", "e", "e", "p", " ", "a", "r", "t", "i", "s",
       "t", "i", "c", " ", "s", "t", "y", "l", "e", " ", "r", "e", "f", "e",
       "r", "e", "n", "c", "e", "s", " ", "i", "f", " ", "p", "r", "o", "v",
       "i", "d", "e", "d", ".", " ", "A", "d", "d", " ", "l", "i", "g", "h",
       "t", "i", "n", "g", ",", " ", "c", "o", "m", "p", "o", "s", "i", "t",
       "i", "o", "n", ",", " ", "a", "n", "d", " ", "a", "t", "m", "o", "s",
       "p", "h", "e", "r", "e", " ", "d", "e", "t", "a", "i", "l", "s", ".",
       " ", "T", "h", "e", " ", "r", "e", "s", "u", "l", "t", " ", "M", "U",
       "S", "T", " ", "b", "e", " ", "u", "n", "d", "e", "r", " ", "5", "0",
       " ", "w", "o", "r", "d", "s", ".", " ", "O", "u", "t", "p", "u", "t",
       " ", "O", "N", "L", "Y", " ", "t", "h", "e", " ", "e", "n", "h", "a",
       "n", "c", "e", "d", " ", "p", "r", "o", "m", "p", "t", ",", " ", "n",
       "o", " ", "e", "x", "p", "l", "a", "n", "a", "t", "i", "o", "n", ",",
       " ", "n", "o", " ", "q", "u", "o", "t", "e", "s", "." >>

\* UTF-8 width of a character: the model's one non-ASCII character takes two
ByteWidth(c) == IF c = "é" THEN 2 ELSE 1

\* str::len: the length in bytes, summed by halves
RECURSIVE str_len(_)
str_len(s) ==
    IF s = << >> THEN 0
    ELSE IF Len(s) = 1 THEN ByteWidth(s[1])
    ELSE LET mid == Len(s) \div 2
         IN  str_len(SubSeq(s, 1, mid)) + str_len(SubSeq(s, mid + 1, Len(s)))

\* str::split_whitespace, collected: the maximal runs of non-whitespace, in
\* order. Computed by halves: the words of a text are the words of its two
\* halves, with the word that the cut went through put together again.
RECURSIVE split_whitespace(_)
split_whitespace(text) ==
    IF text = << >> THEN << >>
    ELSE IF Len(text) = 1
         THEN IF IsWhitespace(text[1]) THEN << >> ELSE << text >>
    ELSE LET mid == Len(text) \div 2
             left == split_whitespace(SubSeq(text, 1, mid))
             right == split_whitespace(SubSeq(text, mid + 1, Len(text)))
         IN  IF IsWhitespace(text[mid]) \/ IsWhitespace(text[mid + 1])
             THEN left \o right
             ELSE SubSeq(left, 1, Len(left) - 1)
                  \o << left[Len(left)] \o right[1] >>
                  \o Tail(right)

\* [&str]::join, by halves
RECURSIVE join(_, _)
join(words, sep) ==
    IF words = << >> THEN << >>
    ELSE IF Len(words) = 1 THEN words[1]
    ELSE LET mid == Len(words) \div 2
         IN  join(SubSeq(words, 1, mid), sep) \o sep
             \o join(SubSeq(words, mid + 1, Len(words)), sep)

\* mutant of truncate_to_words: the slice keeps one word too many
truncate_keeps_one_more(text, max_words) ==
    LET words == split_whitespace(text)
    IN  IF Len(words) <= max_words + 1 THEN text
        ELSE join(SubSeq(words, 1, max_words + 1), << " " >>)

\* where the n-th word of the text ends (0 when n = 0)
EndOfWord(text, n) ==
    IF n = 0 THEN 0
    ELSE CHOOSE j \in 1..Len(text) :
             /\ Len(split_whitespace(SubSeq(text, 1, j))) = n
             /\ ~IsWhitespace(text[j])
             /\ j < Len(text) => IsWhitespace(text[j + 1])

\* mutant of truncate_to_words: cuts the text after the last kept word and
\* keeps the whitespace of the original in front of and between the words
truncate_keeps_whitespace(text, max_words) ==
    LET words == split_whitespace(text)
    IN  IF Len(words) <= max_words THEN text
        ELSE SubSeq(text, 1, EndOfWord(text, max_words))

\* truncate_to_words
truncate_to_words(text, max_words) ==
    LET words == split_whitespace(text)
    IN  IF Len(words) <= max_words THEN text
        ELSE join(SubSeq(words, 1, max_words), << " " >>)

\* response.choices[0].message.content ... trim ... unwrap_or_default
EnhancedText(content) ==
    IF content.some THEN Trim(content.val) ELSE << >>

\* mutant of IsDegenerate: the comparison is strict
IsDegenerateStrict(enhanced, seed) ==
    str_len(enhanced) < str_len(seed) + FallbackSlack

\* the quality gate of enhance
IsDegenerate(enhanced, seed) ==
    str_len(enhanced) <= str_len(seed) + FallbackSlack

\* mutant of EnhanceResult: a degenerate output is kept, not replaced by the seed
EnhanceResultNoFallback(seed, content) ==
    truncate_to_words(EnhancedText(content), MAX_PROMPT_WORDS)

\* what enhance returns for a seed and the content of a successful response
EnhanceResult(seed, content) ==
    LET enhanced == EnhancedText(content)
    IN  IF IsDegenerate(enhanced, seed)
        THEN truncate_to_words(seed, MAX_PROMPT_WORDS)
        ELSE truncate_to_words(enhanced, MAX_PROMPT_WORDS)

\* the request enhance builds
BuildEnhanceRequest(e, seed) ==
    LET base == [RequestBuilder_new EXCEPT
                    !.temperature = Some(EnhanceTemperature),
                    !.top_p = Some(EnhanceTopP),
                    !.max_len = Some(EnhanceMaxLen)]
    IN  add_message(add_message(base, "System", e.system_prompt), "User", seed)

\* PromptEnhancer::from_preset / with_model, after the model was built
PromptEnhancer_new(loaded) == [model |-> loaded, system_prompt |-> SYSTEM_PROMPT]

\* PromptEnhancer::with_system_prompt
with_system_prompt(e, prompt) == [e EXCEPT !.system_prompt = prompt]

(* Inputs of the enhancer model *)

\* longest seed / response content that is enumerated character by character
MaxSeedLen == 2

MaxResponseLen == 7

\* how far the long texts go beyond MAX_PROMPT_WORDS words
MaxExtraWords == 2

ShortAlphabet == { "a", " " }

ShortTexts(n) == UNION { [1..k -> ShortAlphabet] : k \in 0..n }

\* the i-th word of a long text
LongWord(i) ==
    CASE i % 3 = 1 -> << "a" >>
      [] i % 3 = 2 -> << "b", "c" >>
      [] OTHER     -> << "d" >>

\* k words, separated by sep and padded on both sides by pad
LongText(k, sep, pad) == pad \o join([i \in 1..k |-> LongWord(i)], sep) \o pad

\* single-spaced without padding, or separated by "\n " and padded
LongShapes ==
    { [sep |-> << " " >>, pad |-> << >>],
      [sep |-> << "\n", " " >>, pad |-> << " " >>] }

LongTexts ==
    { LongText(k, shape.sep, shape.pad) :
        k \in (MAX_PROMPT_WORDS - 1)..(MAX_PROMPT_WORDS + MaxExtraWords),
        shape \in LongShapes }

Seeds == ShortTexts(MaxSeedLen) \cup LongTexts \cup { << "é" >> }

EnhanceContents ==
    { None } \cup
    { Some(c) : c \in ShortTexts(MaxResponseLen) \cup LongTexts
                      \cup { << "\n", "é", "a", "b", "c", "\n" >> } }

EnhancerIdle ==
    /\ e_pc = "idle"
    /\ seed_prompt = None
    /\ e_request = None
    /\ e_response = NoResponse
    /\ e_ret = NoRet

EnhancerInit ==
    /\ enhancer \in { PromptEnhancer_new([instance |-> "enhancer"]),
                      with_system_prompt(PromptEnhancer_new([instance |-> "enhancer"]),
                                         CustomSystemPrompt) }
    /\ EnhancerIdle

\* enhance, up to the await: the request is built and submitted
EnhanceBegin(seed) ==
    /\ e_pc = "idle"
    /\ seed_prompt' = Some(seed)
    /\ e_request' = Some(BuildEnhanceRequest(enhancer, seed))
    /\ e_response' = NoResponse
    /\ e_ret' = NoRet
    /\ e_pc' = "awaiting"
    /\ UNCHANGED << enhancer, notEnhancerVars >>

\* the runtime finishes the inference call with a result or an error
EnhanceReply(r) ==
    /\ e_pc = "awaiting"
    /\ e_response = NoResponse
    /\ e_response' = r
    /\ UNCHANGED << enhancer, e_pc, seed_prompt, e_request, e_ret, notEnhancerVars >>

\* mutant of EnhanceFailed: a failed call silently falls back to the seed
EnhanceFailedFallsBack ==
    /\ e_pc = "awaiting"
    /\ e_response = ResponseErr
    /\ e_ret' = RetOk(truncate_to_words(seed_prompt.val, MAX_PROMPT_WORDS))
    /\ e_pc' = "idle"
    /\ UNCHANGED << enhancer, seed_prompt, e_request, e_response, notEnhancerVars >>

\* enhance resumes with Err: `?` returns it
EnhanceFailed ==
    /\ e_pc = "awaiting"
    /\ e_response = ResponseErr
    /\ e_ret' = RetErr
    /\ e_pc' = "idle"
    /\ UNCHANGED << enhancer, seed_prompt, e_request, e_response, notEnhancerVars >>

\* enhance resumes with Ok: quality gate, then truncation
EnhanceCompleted ==
    /\ e_pc = "awaiting"
    /\ e_response.kind = "ok"
    /\ e_ret' = RetOk(EnhanceResult(seed_prompt.val, e_response.content))
    /\ e_pc' = "idle"
    /\ UNCHANGED << enhancer, seed_prompt, e_request, e_response, notEnhancerVars >>

EnhancerNext ==
    \/ \E seed \in Seeds : EnhanceBegin(seed) /\ UNCHANGED songVars
    \/ \E r \in { ResponseErr } \cup { ResponseOk(c) : c \in EnhanceContents } :
           EnhanceReply(r) /\ UNCHANGED songVars
    \/ EnhanceFailed /\ UNCHANGED songVars
    \/ EnhanceCompleted /\ UNCHANGED songVars

-----------------------------------------------------------------------------
(* truncate_to_words on its own *)

\* longest text that is enumerated character by character
MaxTextLen == 5

\* largest small max_words that is tried, besides MAX_PROMPT_WORDS
MaxWordsArg == 3

TextAlphabet == { "a", "b", " ", "\n" }

TruncateTexts ==
    UNION { [1..k -> TextAlphabet] : k \in 0..MaxTextLen } \cup LongTexts

TruncateIdle ==
    /\ t_text = << >>
    /\ t_max_words = 0
    /\ t_out = None

TruncateInit ==
    /\ t_text \in TruncateTexts
    /\ t_max_words \in (0..MaxWordsArg) \cup { MAX_PROMPT_WORDS }
    /\ t_out = None

TruncateCall ==
    /\ t_out = None
    /\ t_out' = Some(truncate_to_words(t_text, t_max_words))
    /\ UNCHANGED << t_text, t_max_words, notTruncateVars >>

TruncateNext == TruncateCall

-----------------------------------------------------------------------------
(* Model presets: src/src/promp_enhancer.rs and src/src/cli_chat.rs *)

EnhancerModels ==
    { "EnhancerModel::GemmaE2b", "EnhancerModel::GemmaE4b",
      "EnhancerModel::Phi35Mini" }

\* #[default] of EnhancerModel
EnhancerModel_default == "EnhancerModel::GemmaE4b"

\* Option<EnhancerModel>::unwrap_or_default
unwrap_or_default(model) ==
    IF model.some THEN model.val ELSE EnhancerModel_default

EnhancerModel_model_id(self) ==
    CASE self = "EnhancerModel::GemmaE2b"  -> "google/gemma-3n-E2B-it"
      [] self = "EnhancerModel::GemmaE4b"  -> "google/gemma-3n-E4B-it"
      [] self = "EnhancerModel::Phi35Mini" -> "microsoft/Phi-3.5-mini-instruct"

\* impl From<EnhancerModel> for ChatModel
ChatModel_from(value) ==
    CASE value = "EnhancerModel::GemmaE2b"  -> "ChatModel::GemmaE2b"
      [] value = "EnhancerModel::GemmaE4b"  -> "ChatModel::GemmaE4b"
      [] value = "EnhancerModel::Phi35Mini" -> "ChatModel::Phi35Mini"

ChatModel_model_id(self) ==
    CASE self = "ChatModel::GemmaE2b"  -> "google/gemma-3n-E2B-it"
      [] self = "ChatModel::GemmaE4b"  -> "google/gemma-3n-E4B-it"
      [] self = "ChatModel::Phi35Mini" -> "microsoft/Phi-3.5-mini-instruct"

\* a builder as the calls on it leave it; a builder of the runtime starts with
\* dtype Auto, no in-situ quantization and logging off
TextModelBuilder_new(model_id) ==
    [ kind |-> "TextModelBuilder", model_id |-> model_id, dtype |-> "Auto",
      isq |-> None, logging |-> FALSE ]

VisionModelBuilder_new(model_id) ==
    [ kind |-> "VisionModelBuilder", model_id |-> model_id, dtype |-> "Auto",
      isq |-> None, logging |-> FALSE ]

with_dtype(builder, dtype) == [builder EXCEPT !.dtype = dtype]

with_isq(builder, isq) == [builder EXCEPT !.isq = Some(isq)]

with_logging(builder) == [builder EXCEPT !.logging = TRUE]

\* EnhancerModel::configure_builder: the builder from_preset builds from
EnhancerModel_configure_builder(self) ==
    LET builder == with_logging(TextModelBuilder_new(EnhancerModel_model_id(self)))
    IN  CASE self = "EnhancerModel::GemmaE2b" ->
                with_isq(with_dtype(builder, "Auto"), "Q4K")
          [] self = "EnhancerModel::GemmaE4b" ->
                with_dtype(builder, "F16")
          [] self = "EnhancerModel::Phi35Mini" ->
                with_isq(with_dtype(builder, "Auto"), "Q4K")

\* ChatModel::build_model: the builder whose build() gives the session's model
ChatModel_build_model(self) ==
    CASE self = "ChatModel::GemmaE2b" ->
            with_logging(with_isq(
                VisionModelBuilder_new(ChatModel_model_id(self)), "Q4K"))
      [] self = "ChatModel::GemmaE4b" ->
            with_logging(with_dtype(
                VisionModelBuilder_new(ChatModel_model_id(self)), "F16"))
      [] self = "ChatModel::Phi35Mini" ->
            with_logging(with_isq(
                TextModelBuilder_new(ChatModel_model_id(self)), "Q4K"))

\* the loading strategy of a builder: its kind, its dtype and its quantization
LoadingStrategy(builder) ==
    [ kind |-> builder.kind, dtype |-> builder.dtype, isq |-> builder.isq ]

-----------------------------------------------------------------------------
(* The interactive loop: cli_chat::run *)

\* lines one run of the loop may read before the model stops reading
MaxLines == 4

\* the session `chat` that run owns
LoopSession == "A"

CmdExit == << "/", "e", "x", "i", "t" >>

CmdQuit == << "/", "q", "u", "i", "t" >>

CmdHelp == << "/", "h", "e", "l", "p" >>

CmdClear == << "/", "c", "l", "e", "a", "r" >>

\* what read_line may put into `input`: nothing at the end of the input, or a
\* line with its newline
InputLines ==
    { << >>,
      << "\n" >>,
      << " ", "\n" >>,
      << " ", "/", "h", "e", "l", "p", "\n" >>,
      << "/", "c", "l", "e", "a", "r", " ", "\n" >>,
      << "/", "e", "x", "i", "t", "\n" >>,
      << " ", "/", "q", "u", "i", "t", " ", "\n" >>,
      << "h", "i", "\n" >>,
      << " ", "/", "x", " ", "\n" >> }

\* the branch one iteration takes on the line it read
LineKind(line) ==
    LET n == str_len(line)
        input == Trim(line)
    IN  IF n = 0 THEN "eof"
        ELSE IF input = << >> THEN "blank"
        ELSE IF input = CmdExit \/ input = CmdQuit THEN "exit"
        ELSE IF input = CmdHelp THEN "help"
        ELSE IF input = CmdClear THEN "clear"
        ELSE "send"

\* Ok(()) of run
RunOk == [kind |-> "ok"]

RunInit ==
    /\ run_model \in { None } \cup { Some(p) : p \in EnhancerModels }
    /\ run_built = None
    /\ loop_pc = "load"
    /\ loop_line = << >>
    /\ lines_read = 0
    /\ run_ret = NoRet

\* CliChat::from_preset(preset, None) succeeded: the session is constructed
LoopLoaded ==
    /\ loop_pc = "load"
    /\ LET preset == ChatModel_from(unwrap_or_default(run_model))
       IN  run_built' = Some(ChatModel_build_model(preset))
    /\ chat' = [chat EXCEPT ![LoopSession] =
                   from_preset(LoadedModel(LoopSession), None)]
    /\ loop_pc' = "prompt"
    /\ UNCHANGED << pc, user_message, request, response, ret, nSends, lastOp,
                    run_model, loop_line, lines_read, run_ret, notChatVars >>

\* build_model failed: `?` returns the error before the loop is entered
LoopLoadFailed ==
    /\ loop_pc = "load"
    /\ loop_pc' = "failed"
    /\ run_ret' = RetErr
    /\ UNCHANGED << chatVars, run_model, run_built, loop_line, lines_read,
                    notChatVars >>

\* flush or read_line failed: `?` returns the error
LoopIoError ==
    /\ loop_pc = "prompt"
    /\ loop_pc' = "failed"
    /\ run_ret' = RetErr
    /\ UNCHANGED << chatVars, run_model, run_built, loop_line, lines_read,
                    notChatVars >>

\* end of input, /exit or /quit: break
LoopQuit(line) ==
    /\ loop_pc = "prompt"
    /\ lines_read < MaxLines
    /\ LineKind(line) \in { "eof", "exit" }
    /\ loop_line' = line
    /\ lines_read' = lines_read + 1
    /\ loop_pc' = "exited"
    /\ run_ret' = RunOk
    /\ UNCHANGED << chatVars, run_model, run_built, notChatVars >>

\* a blank line or /help: continue
LoopContinue(line) ==
    /\ loop_pc = "prompt"
    /\ lines_read < MaxLines
    /\ LineKind(line) \in { "blank", "help" }
    /\ loop_line' = line
    /\ lines_read' = lines_read + 1
    /\ UNCHANGED << chatVars, run_model, run_built, loop_pc, run_ret,
                    notChatVars >>

\* /clear: chat.clear(), continue
LoopClear(line) ==
    /\ loop_pc = "prompt"
    /\ lines_read < MaxLines
    /\ LineKind(line) = "clear"
    /\ Clear(LoopSession)
    /\ loop_line' = line
    /\ lines_read' = lines_read + 1
    /\ UNCHANGED << run_model, run_built, loop_pc, run_ret >>

\* any other line: chat.send(input), up to its await
LoopSend(line) ==
    /\ loop_pc = "prompt"
    /\ lines_read < MaxLines
    /\ LineKind(line) = "send"
    /\ SendBegin(LoopSession, Trim(line))
    /\ loop_line' = line
    /\ lines_read' = lines_read + 1
    /\ loop_pc' = "sending"
    /\ UNCHANGED << run_model, run_built, run_ret >>

LoopReply(r) ==
    /\ loop_pc = "sending"
    /\ InferenceReply(LoopSession, r)
    /\ UNCHANGED runVars

\* mutant of LoopSendFailed: the error is reported and the loop goes on
LoopSendFailedContinues ==
    /\ loop_pc = "sending"
    /\ SendFailed(LoopSession)
    /\ loop_pc' = "prompt"
    /\ UNCHANGED << run_model, run_built, loop_line, lines_read, run_ret >>

\* chat.send(input).await? with Err: run returns the error
LoopSendFailed ==
    /\ loop_pc = "sending"
    /\ SendFailed(LoopSession)
    /\ loop_pc' = "failed"
    /\ run_ret' = RetErr
    /\ UNCHANGED << run_model, run_built, loop_line, lines_read >>

\* chat.send(input).await? with Ok: the reply is printed, next iteration
LoopSendCompleted ==
    /\ loop_pc = "sending"
    /\ SendCompleted(LoopSession)
    /\ loop_pc' = "prompt"
    /\ UNCHANGED << run_model, run_built, loop_line, lines_read, run_ret >>

RunNext ==
    \/ LoopLoaded
    \/ LoopLoadFailed
    \/ LoopIoError
    \/ \E line \in InputLines : LoopQuit(line)
    \/ \E line \in InputLines : LoopContinue(line)
    \/ \E line \in InputLines : LoopClear(line)
    \/ \E line \in InputLines : LoopSend(line)
    \/ \E r \in { ResponseErr } \cup { ResponseOk(c) : c \in ResponseContents } :
           LoopReply(r)
    \/ LoopSendFailed
    \/ LoopSendCompleted

-----------------------------------------------------------------------------
(* PromptEnhancer::enhance_for_song *)

\* mutant of SongSeed: title and style are joined without the comma
SongSeedNoComma(song_title, style) ==
    IF style.some THEN song_title \o << " " >> \o style.val ELSE song_title

\* the seed enhance_for_song builds: format!("{song_title}, {s}") or the title
SongSeed(song_title, style) ==
    IF style.some THEN song_title \o << ",", " " >> \o style.val ELSE song_title

\* 49 words: with a style of more than one word the composed seed is over
\* MAX_PROMPT_WORDS
LongTitle == LongText(MAX_PROMPT_WORDS - 1, << " " >>, << >>)

SongTitles == { << >>, << "a" >>, << "a", " ", "b" >>, LongTitle }

SongStyles ==
    { None, Some(<< >>), Some(<< "c" >>), Some(<< "o", "i", "l", " ", "o", "n" >>) }

SongIdle == song_args = None

\* enhance_for_song, up to the await inside enhance
EnhanceForSongBegin(song_title, style) ==
    /\ EnhanceBegin(SongSeed(song_title, style))
    /\ song_args' = Some([song_title |-> song_title, style |-> style])

SongNext ==
    \/ \E song_title \in SongTitles, style \in SongStyles :
           EnhanceForSongBegin(song_title, style)
    \/ \E r \in { ResponseErr } \cup { ResponseOk(c) : c \in EnhanceContents } :
           EnhanceReply(r) /\ UNCHANGED songVars
    \/ EnhanceFailed /\ UNCHANGED songVars
    \/ EnhanceCompleted /\ UNCHANGED songVars

-----------------------------------------------------------------------------
(* Audio transcription: src/src/audio_transcription.rs *)

\* the element "EM DASH" stands for the one character U+2014
TRANSCRIPTION_SYSTEM_PROMPT ==
    << "Y", "o", "u", " ", "a", "r", "e", " ", "a", " ", "p", "r", "e", "c",
       "i", "s", "e", " ", "a", "u", "d", "i", "o", " ", "t", "r", "a", "n",
       "s", "c", "r", "i", "p", "t", "i", "o", "n", " ", "a", "s", "s", "i",
       "s", "t", "a", "n", "t", ".", " ", "Y", "o", "u", "r", " ", "t", "a",
       "s", "k", " ", "i", "s", " ", "t", "o", " ", "l", "i", "s", "t", "e",
       "n", " ", "t", "o", " ", "t", "h", "e", " ", "a", "u", "d", "i", "o",
       " ", "a", "n", "d", " ", "p", "r", "o", "d", "u", "c", "e", " ", "a",
       "n", " ", "e", "x", "a", "c", "t", ",", " ", "w", "o", "r", "d", "-",
       "f", "o", "r", "-", "w", "o", "r", "d", " ", "t", "r", "a", "n", "s",
       "c", "r", "i", "p", "t", "i", "o", "n", " ", "o", "f", " ", "e", "v",
       "e", "r", "y", "t", "h", "i", "n", "g", " ", "t", "h", "a", "t", " ",
       "i", "s", " ", "s", "p", "o", "k", "e", "n", " ", "o", "r", " ", "s",
       "u", "n", "g", ".", " ", "F", "o", "l", "l", "o", "w", " ", "t", "h",
       "e", "s", "e", " ", "r", "u", "l", "e", "s", " ", "s", "t", "r", "i",
       "c", "t", "l", "y", ":", "\n", "1", ".", " ", "T", "r", "a", "n", "s",
       "c", "r", "i", "b", "e", " ", "e", "v", "e", "r", "y", " ", "w", "o",
       "r", "d", " ", "e", "x", "a", "c", "t", "l", "y", " ", "a", "s", " ",
       "y", "o", "u", " ", "h", "e", "a", "r", " ", "i", "t", ".", "\n", "2",
       ".", " ", "U", "s", "e", " ", "s", "t", "a", "n", "d", "a", "r", "d",
       " ", "p", "u", "n", "c", "t", "u", "a", "t", "i", "o", "n", " ", "(",
       "p", "e", "r", "i", "o", "d", "s", ",", " ", "c", "o", "m", "m", "a",
       "s", ",", " ", "q", "u", "e", "s", "t", "i", "o", "n", " ", "m", "a",
       "r", "k", "s", ")", ".", "\n", "3", ".", " ", "S", "t", "a", "r", "t",
       " ", "a", " ", "n", "e", "w", " ", "l", "i", "n", "e", " ", "f", "o",
       "r", " ", "e", "a", "c", "h", " ", "d", "i", "s", "t", "i", "n", "c",
       "t", " ", "s", "e", "n", "t", "e", "n", "c", "e", " ", "o", "r", " ",
       "p", "h", "r", "a", "s", "e", ".", "\n", "4", ".", " ", "I", "f", " ",
       "a", " ", "s", "e", "c", "t", "i", "o", "n", " ", "i", "s", " ", "u",
       "n", "i", "n", "t", "e", "l", "l", "i", "g", "i", "b", "l", "e", ",",
       " ", "w", "r", "i", "t", "e", " ", "[", "i", "n", "a", "u", "d", "i",
       "b", "l", "e", "]", ".", "\n", "5", ".", " ", "D", "o", " ", "N", "O",
       "T", " ", "a", "d", "d", " ", "a", "n", "y", " ", "c", "o", "m", "m",
       "e", "n", "t", "a", "r", "y", ",", " ", "e", "x", "p", "l", "a", "n",
       "a", "t", "i", "o", "n", ",", " ", "o", "r", " ", "d", "e", "s", "c",
       "r", "i", "p", "t", "i", "o", "n", " ", "EM DASH", " ", "o", "u", "t",
       "p", "u", "t", " ", "O", "N", "L", "Y", " ", "t", "h", "e", " ", "t",
       "r", "a", "n", "s", "c", "r", "i", "p", "t", "i", "o", "n", "." >>

DEFAULT_USER_PROMPT ==
    << "T", "r", "a", "n", "s", "c", "r", "i", "b", "e", " ", "t", "h", "e",
       " ", "v", "o", "c", "a", "l", "s", " ", "i", "n", " ", "t", "h", "i",
       "s", " ", "a", "u", "d", "i", "o", " ", "e", "x", "a", "c", "t", "l",
       "y", ",", " ", "w", "o", "r", "d", " ", "f", "o", "r", " ", "w", "o",
       "r", "d", "." >>

(* f64 values as exact fractions, with the two special values the divisions  *)
(* of this module can produce; rounding is not modelled and no value is      *)
(* negative                                                                  *)

RECURSIVE GCD(_, _)
GCD(a, b) == IF b = 0 THEN a ELSE GCD(b, a % b)

\* the fraction n / d in lowest terms, d > 0
Fin(n, d) == [kind |-> "fin", num |-> n \div GCD(n, d), den |-> d \div GCD(n, d)]

INFINITY == [kind |-> "inf"]

NAN == [kind |-> "nan"]

\* `n as f64`
f64_from(n) == Fin(n, 1)

\* a * b of two finite values
f64_mul(a, b) == Fin(a.num * b.num, a.den * b.den)

\* a / b as IEEE 754 defines it for non-negative operands
f64_div(a, b) ==
    IF a.kind = "nan" \/ b.kind = "nan" THEN NAN
    ELSE IF a.kind = "inf" THEN (IF b.kind = "inf" THEN NAN ELSE INFINITY)
    ELSE IF b.kind = "inf" THEN Fin(0, 1)
    ELSE IF b.num = 0 THEN (IF a.num = 0 THEN NAN ELSE INFINITY)
    ELSE Fin(a.num * b.den, a.den * b.num)

\* a > 0.0
f64_gt_zero(a) == a.kind = "inf" \/ (a.kind = "fin" /\ a.num > 0)

\* Duration::as_secs_f64 of a duration held in milliseconds
as_secs_f64(millis) == Fin(millis, 1000)

\* AudioInput::from_bytes: the decoded audio, or None when the bytes do not decode
from_bytes(audio_bytes) ==
    IF audio_bytes.decodable
    THEN Some([ samples_len |-> audio_bytes.samples_len,
                sample_rate |-> audio_bytes.sample_rate,
                channels    |-> audio_bytes.channels ])
    ELSE None

\* num_samples as f64 / (sample_rate as f64 * channels as f64)
duration_secs(audio) ==
    f64_div(f64_from(audio.samples_len),
            f64_mul(f64_from(audio.sample_rate), f64_from(audio.channels)))

\* the request transcribe_audio builds once the audio is attached
BuildTranscribeRequest(t, user_prompt, audio) ==
    LET user_text == IF user_prompt.some THEN user_prompt.val
                     ELSE DEFAULT_USER_PROMPT
        base == [RequestBuilder_new EXCEPT !.temperature = Some(0)]
        sys == add_message(base, "System", t.system_prompt)
    IN  [ temperature |-> sys.temperature, top_p |-> sys.top_p,
          max_len |-> sys.max_len,
          messages |-> Append(sys.messages, ChatTurn("User", user_text)),
          audios |-> << audio >> ]

\* response.choices[0].message.content ... trim ... unwrap_or_default
TranscriptText(content) ==
    IF content.some THEN Trim(content.val) ELSE << >>

TranscriptionResult(text, audio, elapsed) ==
    [ text |-> text,
      audio_duration_secs |-> duration_secs(audio),
      inference_duration |-> elapsed,
      sample_rate |-> audio.sample_rate,
      channels |-> audio.channels ]

\* mutant of real_time_factor: the ratio is taken the other way round
audio_time_per_inference_time(result) ==
    IF f64_gt_zero(result.audio_duration_secs)
    THEN f64_div(result.audio_duration_secs, as_secs_f64(result.inference_duration))
    ELSE INFINITY

\* TranscriptionResult::real_time_factor
real_time_factor(result) ==
    IF f64_gt_zero(result.audio_duration_secs)
    THEN f64_div(as_secs_f64(result.inference_duration), result.audio_duration_secs)
    ELSE INFINITY

\* AudioTranscriber::from_preset, after the model was built
AudioTranscriber_new(loaded) ==
    [model |-> loaded, system_prompt |-> TRANSCRIPTION_SYSTEM_PROMPT]

\* an error of transcribe_bytes, with the stage that raised it
TrErr(stage) == [kind |-> "err", stage |-> stage]

TrOk(result) == [kind |-> "ok", result |-> result]

(* Inputs of the transcription model *)

SampleCounts == { 0, 3, 4 }

SampleRates == { 0, 1, 2 }

ChannelCounts == { 1, 2 }

\* how long the inference call took, in milliseconds
ElapsedMillis == { 0, 1000, 1500 }

UndecodableBytes ==
    [decodable |-> FALSE, samples_len |-> 0, sample_rate |-> 0, channels |-> 0]

AudioBytes ==
    { UndecodableBytes } \cup
    { [decodable |-> TRUE, samples_len |-> n, sample_rate |-> r, channels |-> c] :
        n \in SampleCounts, r \in SampleRates, c \in ChannelCounts }

UserPromptArgs == { None, Some(<< "l", "y", "r", "i", "c", "s" >>) }

TranscriptContents == { None, Some(<< " ", "l", "a", "\n" >>) }

TranscriberIdle ==
    /\ tr_pc = "idle"
    /\ tr_bytes = UndecodableBytes
    /\ tr_user_prompt = None
    /\ tr_request = None
    /\ tr_response = NoResponse
    /\ tr_elapsed = 0
    /\ tr_ret = NoRet
    /\ tr_log = << >>

TranscriberParked ==
    /\ transcriber = AudioTranscriber_new([instance |-> "transcriber"])
    /\ TranscriberIdle

TranscribeInit ==
    /\ transcriber \in
           { AudioTranscriber_new([instance |-> "transcriber"]),
             with_system_prompt(AudioTranscriber_new([instance |-> "transcriber"]),
                                CustomSystemPrompt) }
    /\ TranscriberIdle

\* mutant of TranscribeBytesCall: a failed attachment is dropped and the request
\* goes out without the audio
TranscribeWithoutAttachment(audio_bytes, user_prompt, attached) ==
    /\ tr_pc = "idle"
    /\ tr_bytes' = audio_bytes
    /\ tr_user_prompt' = user_prompt
    /\ tr_response' = NoResponse
    /\ tr_elapsed' = 0
    /\ LET audio == from_bytes(audio_bytes)
       IN  IF ~audio.some
           THEN /\ tr_request' = None
                /\ tr_log' = << >>
                /\ tr_ret' = TrErr("decode")
                /\ tr_pc' = "idle"
           ELSE /\ tr_request' =
                       Some(BuildTranscribeRequest(transcriber, user_prompt, audio.val))
                /\ tr_log' = IF attached THEN << "decode", "attach", "submit" >>
                             ELSE << "decode", "submit" >>
                /\ tr_ret' = NoRet
                /\ tr_pc' = "awaiting"
    /\ UNCHANGED << transcriber, notTranscribeVars >>

\* transcribe_bytes, up to the await of transcribe_audio: decode, attach, submit;
\* `attached` is whether add_audio_message accepts the audio
TranscribeBytesCall(audio_bytes, user_prompt, attached) ==
    /\ tr_pc = "idle"
    /\ tr_bytes' = audio_bytes
    /\ tr_user_prompt' = user_prompt
    /\ tr_response' = NoResponse
    /\ tr_elapsed' = 0
    /\ LET audio == from_bytes(audio_bytes)
       IN  IF ~audio.some
           THEN /\ tr_request' = None
                /\ tr_log' = << >>
                /\ tr_ret' = TrErr("decode")
                /\ tr_pc' = "idle"
           ELSE IF ~attached
           THEN /\ tr_request' = None
                /\ tr_log' = << "decode" >>
                /\ tr_ret' = TrErr("attach")
                /\ tr_pc' = "idle"
           ELSE /\ tr_request' =
                       Some(BuildTranscribeRequest(transcriber, user_prompt, audio.val))
                /\ tr_log' = << "decode", "attach", "submit" >>
                /\ tr_ret' = NoRet
                /\ tr_pc' = "awaiting"
    /\ UNCHANGED << transcriber, notTranscribeVars >>

\* the runtime finishes the inference call; start.elapsed() is taken
TranscribeReply(r, elapsed) ==
    /\ tr_pc = "awaiting"
    /\ tr_response = NoResponse
    /\ tr_response' = r
    /\ tr_elapsed' = IF r.kind = "ok" THEN elapsed ELSE 0
    /\ UNCHANGED << transcriber, tr_pc, tr_bytes, tr_user_prompt, tr_request,
                    tr_ret, tr_log, notTranscribeVars >>

\* transcribe_audio resumes with Err: `?` returns it
TranscribeFailed ==
    /\ tr_pc = "awaiting"
    /\ tr_response = ResponseErr
    /\ tr_ret' = TrErr("inference")
    /\ tr_pc' = "idle"
    /\ UNCHANGED << transcriber, tr_bytes, tr_user_prompt, tr_request,
                    tr_response, tr_elapsed, tr_log, notTranscribeVars >>

\* transcribe_audio resumes with Ok: the result is assembled
TranscribeCompleted ==
    /\ tr_pc = "awaiting"
    /\ tr_response.kind = "ok"
    /\ tr_ret' = TrOk(TranscriptionResult(TranscriptText(tr_response.content),
                                          from_bytes(tr_bytes).val, tr_elapsed))
    /\ tr_log' = Append(tr_log, "inference")
    /\ tr_pc' = "idle"
    /\ UNCHANGED << transcriber, tr_bytes, tr_user_prompt, tr_request,
                    tr_response, tr_elapsed, notTranscribeVars >>

TranscribeNext ==
    \/ \E audio_bytes \in AudioBytes, user_prompt \in UserPromptArgs,
          attached \in BOOLEAN :
           TranscribeBytesCall(audio_bytes, user_prompt, attached)
    \/ \E r \in { ResponseErr } \cup { ResponseOk(c) : c \in TranscriptContents },
          elapsed \in ElapsedMillis :
           TranscribeReply(r, elapsed)
    \/ TranscribeFailed
    \/ TranscribeCompleted

-----------------------------------------------------------------------------
(* Image generation: src/src/image_generation.rs *)

\* MAX_PROMPT_WORDS of image_generation.rs
IMAGE_MAX_PROMPT_WORDS == 50

\* the built-in prompt run uses when it gets neither a prompt nor a seed
DefaultImagePrompt ==
    << "A", " ", "m", "a", "j", "e", "s", "t", "i", "c", " ", "c", "a", "s",
       "t", "l", "e", " ", "o", "n", " ", "a", " ", "c", "l", "i", "f", "f",
       " ", "o", "v", "e", "r", "l", "o", "o", "k", "i", "n", "g", " ", "t",
       "h", "e", " ", "s", "e", "a", " ", "a", "t", " ", "s", "u", "n", "s",
       "e", "t", ",", " ", "h", "i", "g", "h", "l", "y", " ", "d", "e", "t",
       "a", "i", "l", "e", "d", ",", " ", "d", "i", "g", "i", "t", "a", "l",
       " ", "p", "a", "i", "n", "t", "i", "n", "g", ",", " ", "t", "r", "e",
       "n", "d", "i", "n", "g", " ", "o", "n", " ", "a", "r", "t", "s", "t",
       "a", "t", "i", "o", "n", ",", " ", "i", "n", " ", "t", "h", "e", " ",
       "s", "t", "y", "l", "e", " ", "o", "f", " ", "R", "a", "d", "e", "n",
       " ", "S", "a", "l", "e", "h" >>

\* mutant of image_truncate_to_words: the text goes through as it is
image_truncate_skipped(text, max_words) == text

\* truncate_to_words of image_generation.rs
image_truncate_to_words(text, max_words) ==
    LET words == split_whitespace(text)
    IN  IF Len(words) <= max_words THEN text
        ELSE join(SubSeq(words, 1, max_words), << " " >>)

\* before PromptEnhancer::from_preset ran there is no enhancer
NoEnhancer == [model |-> None, system_prompt |-> << >>]

\* the handle PromptEnhancer::from_preset gets for a preset
LoadedEnhancer(preset) ==
    [instance |-> "enhancer", builder |-> EnhancerModel_configure_builder(preset)]

(* Inputs of the image command *)

DirectPrompts ==
    { << "a", " ", "c", "a", "t" >>, << " ", "a", "\n", "b", " " >> } \cup
    { LongText(k, shape.sep, shape.pad) :
        k \in { IMAGE_MAX_PROMPT_WORDS, IMAGE_MAX_PROMPT_WORDS + MaxExtraWords },
        shape \in LongShapes }

ImageSeeds ==
    { << "a" >>, LongText(IMAGE_MAX_PROMPT_WORDS + 1, << " " >>, << >>) }

ImageIdle ==
    /\ img_prompt = None
    /\ img_seed = None
    /\ img_enhancer_model = None
    /\ img_pc = "done"
    /\ img_text = None
    /\ img_generated = None
    /\ img_ret = NoRet

ImageInit ==
    /\ img_prompt \in { None } \cup { Some(p) : p \in DirectPrompts }
    /\ img_seed \in { None } \cup { Some(s) : s \in ImageSeeds }
    /\ img_enhancer_model \in { None } \cup { Some(m) : m \in EnhancerModels }
    /\ img_pc = "start"
    /\ img_text = None
    /\ img_generated = None
    /\ img_ret = NoRet

\* what run leaves alone besides its own locals and the enhancer it owns
notImageVars == << chatVars, truncateVars, songVars, runVars, transcribeVars >>

\* mutant of ImageResolve: a seed is enhanced although a prompt was given
ImageResolveSeedFirst ==
    /\ img_pc = "start"
    /\ IF img_seed.some
       THEN /\ img_pc' = "loading_enhancer"
            /\ img_text' = None
       ELSE IF img_prompt.some
       THEN /\ img_text' = img_prompt
            /\ img_pc' = "loading_model"
       ELSE /\ img_text' = Some(DefaultImagePrompt)
            /\ img_pc' = "loading_model"
    /\ UNCHANGED << img_prompt, img_seed, img_enhancer_model, img_generated,
                    img_ret, enhancerVars, notImageVars >>

\* run, up to its first await: a prompt is taken as it is, a seed needs the
\* enhancer loaded, otherwise the built-in prompt is taken
ImageResolve ==
    /\ img_pc = "start"
    /\ IF img_prompt.some
       THEN /\ img_text' = img_prompt
            /\ img_pc' = "loading_model"
       ELSE IF img_seed.some
       THEN /\ img_pc' = "loading_enhancer"
            /\ img_text' = None
       ELSE /\ img_text' = Some(DefaultImagePrompt)
            /\ img_pc' = "loading_model"
    /\ UNCHANGED << img_prompt, img_seed, img_enhancer_model, img_generated,
                    img_ret, enhancerVars, notImageVars >>

\* PromptEnhancer::from_preset(preset) succeeded
ImageEnhancerLoaded ==
    /\ img_pc = "loading_enhancer"
    /\ enhancer' = PromptEnhancer_new(
                       LoadedEnhancer(unwrap_or_default(img_enhancer_model)))
    /\ img_pc' = "enhance"
    /\ UNCHANGED << img_prompt, img_seed, img_enhancer_model, img_text,
                    img_generated, img_ret, e_pc, seed_prompt, e_request,
                    e_response, e_ret, notImageVars >>

\* PromptEnhancer::from_preset(preset) failed: `?` returns the error
ImageEnhancerLoadFailed ==
    /\ img_pc = "loading_enhancer"
    /\ img_ret' = RetErr
    /\ img_pc' = "done"
    /\ UNCHANGED << img_prompt, img_seed, img_enhancer_model, img_text,
                    img_generated, enhancerVars, notImageVars >>

\* enhancer.enhance(&seed_text), up to its await
ImageEnhanceCall ==
    /\ img_pc = "enhance"
    /\ seed_prompt = None
    /\ EnhanceBegin(img_seed.val)
    /\ UNCHANGED songVars

\* enhance returned: its error ends run, its text becomes the prompt
ImageEnhanceReturned ==
    /\ img_pc = "enhance"
    /\ e_pc = "idle"
    /\ e_ret # NoRet
    /\ IF e_ret.kind = "ok"
       THEN /\ img_text' = Some(e_ret.text)
            /\ img_pc' = "loading_model"
            /\ img_ret' = img_ret
       ELSE /\ img_text' = img_text
            /\ img_pc' = "done"
            /\ img_ret' = RetErr
    /\ UNCHANGED << img_prompt, img_seed, img_enhancer_model, img_generated,
                    enhancerVars, notImageVars >>

\* the diffusion model is built: the prompt is truncated and generate_image is
\* called with it
ImageModelLoaded ==
    /\ img_pc = "loading_model"
    /\ img_generated' =
           Some(image_truncate_to_words(img_text.val, IMAGE_MAX_PROMPT_WORDS))
    /\ img_pc' = "generating"
    /\ UNCHANGED << img_prompt, img_seed, img_enhancer_model, img_text, img_ret,
                    enhancerVars, notImageVars >>

\* DiffusionModelBuilder ... build() failed: `?` returns the error
ImageModelLoadFailed ==
    /\ img_pc = "loading_model"
    /\ img_ret' = RetErr
    /\ img_pc' = "done"
    /\ UNCHANGED << img_prompt, img_seed, img_enhancer_model, img_text,
                    img_generated, enhancerVars, notImageVars >>

\* generate_image returned: run ends with Ok(()) or with the error
ImageGenerated(ok) ==
    /\ img_pc = "generating"
    /\ img_ret' = IF ok THEN RunOk ELSE RetErr
    /\ img_pc' = "done"
    /\ UNCHANGED << img_prompt, img_seed, img_enhancer_model, img_text,
                    img_generated, enhancerVars, notImageVars >>

ImageNext ==
    \/ ImageResolve /\ UNCHANGED songVars
    \/ ImageEnhancerLoaded /\ UNCHANGED songVars
    \/ ImageEnhancerLoadFailed /\ UNCHANGED songVars
    \/ ImageEnhanceCall
    \/ \E r \in { ResponseErr } \cup { ResponseOk(c) : c \in EnhanceContents } :
           EnhanceReply(r) /\ UNCHANGED songVars
    \/ EnhanceFailed /\ UNCHANGED songVars
    \/ EnhanceCompleted /\ UNCHANGED songVars
    \/ ImageEnhanceReturned /\ UNCHANGED songVars
    \/ ImageModelLoaded /\ UNCHANGED songVars
    \/ ImageModelLoadFailed /\ UNCHANGED songVars
    \/ \E ok \in BOOLEAN : ImageGenerated(ok) /\ UNCHANGED songVars

-----------------------------------------------------------------------------
(* Specifications: one component runs, the others stay as constructed *)

ChatIdle ==
    /\ chat = [s \in Sessions |-> from_preset(LoadedModel(s), None)]
    /\ pc = [s \in Sessions |-> "idle"]
    /\ user_message = [s \in Sessions |-> None]
    /\ request = [s \in Sessions |-> None]
    /\ response = [s \in Sessions |-> NoResponse]
    /\ ret = [s \in Sessions |-> NoRet]
    /\ nSends = [s \in Sessions |-> 0]
    /\ lastOp = [s \in Sessions |-> "new"]

EnhancerParked ==
    /\ enhancer = PromptEnhancer_new([instance |-> "enhancer"])
    /\ EnhancerIdle

RunParked ==
    /\ run_model = None
    /\ run_built = None
    /\ loop_pc = "exited"
    /\ loop_line = << >>
    /\ lines_read = 0
    /\ run_ret = NoRet

ChatSpecInit ==
    /\ ChatInit
    /\ EnhancerParked /\ SongIdle /\ TruncateIdle /\ RunParked
    /\ TranscriberParked /\ ImageIdle

ChatSpec == ChatSpecInit /\ [][ChatNext]_vars

EnhancerSpecInit ==
    /\ EnhancerInit /\ SongIdle
    /\ ChatIdle /\ TruncateIdle /\ RunParked /\ TranscriberParked /\ ImageIdle

EnhancerSpec == EnhancerSpecInit /\ [][EnhancerNext]_vars

TruncateSpecInit ==
    /\ TruncateInit
    /\ ChatIdle /\ EnhancerParked /\ SongIdle /\ RunParked
    /\ TranscriberParked /\ ImageIdle

TruncateSpec == TruncateSpecInit /\ [][TruncateNext]_vars

\* cli_chat::run drives one session
RunSpecInit ==
    /\ RunInit /\ ChatIdle
    /\ EnhancerParked /\ SongIdle /\ TruncateIdle /\ TranscriberParked /\ ImageIdle

RunSpec == RunSpecInit /\ [][RunNext]_vars

\* enhance_for_song on one enhancer
SongSpecInit ==
    /\ EnhancerInit /\ SongIdle
    /\ ChatIdle /\ TruncateIdle /\ RunParked /\ TranscriberParked /\ ImageIdle

SongSpec == SongSpecInit /\ [][SongNext]_vars

\* transcribe_bytes on one transcriber
TranscribeSpecInit ==
    /\ TranscribeInit
    /\ ChatIdle /\ EnhancerParked /\ SongIdle /\ TruncateIdle /\ RunParked
    /\ ImageIdle

TranscribeSpec == TranscribeSpecInit /\ [][TranscribeNext]_vars

\* image_generation::run, which loads its own enhancer when it needs one
ImageSpecInit ==
    /\ ImageInit
    /\ enhancer = NoEnhancer /\ EnhancerIdle /\ SongIdle
    /\ ChatIdle /\ TruncateIdle /\ RunParked /\ TranscriberParked

ImageSpec == ImageSpecInit /\ [][ImageNext]_vars

-----------------------------------------------------------------------------
(* Claims about the chat session, checked under ChatSpec *)

RoleAt(i) == IF i % 2 = 1 THEN "User" ELSE "Assistant"

\* C1: after any sequence of send and clear calls the history holds exactly
\* 2N turns, N the number of successful sends since construction or the last
\* clear, and the turns alternate User, Assistant, ... starting with User.
C1_HistoryHoldsTwoTurnsPerSend ==
    \A s \in Sessions :
        LET h == chat[s].history
        IN  /\ Len(h) = 2 * nSends[s]
            /\ \A i \in 1..Len(h) : h[i].role = RoleAt(i)

\* a session holds the four turns of two successful sends
C1_Witness ==
    \E s \in Sessions :
        /\ nSends[s] = 2
        /\ Len(chat[s].history) = 4
        /\ ret[s].kind = "ok"

\* C2: when the inference call of send fails, the history after the call is
\* the history before it and the caller gets the error, not an assistant text.
C2_FailedSendLeavesHistory ==
    [][\A s \in Sessions :
          (pc[s] = "awaiting" /\ response[s] = ResponseErr /\ pc'[s] = "idle")
              => /\ chat'[s].history = chat[s].history
                 /\ ret'[s] = RetErr]_vars

\* a send failed on a session that already held turns
C2_Witness ==
    \E s \in Sessions :
        /\ ret[s] = RetErr
        /\ pc[s] = "idle"
        /\ Len(chat[s].history) = 2

\* C3: a send changes the history length by 0 or by 2, never by 1: nothing
\* is appended up to and during the await, and the resumption appends 0 or 2
\* turns; so in every state, in flight or not, the length is even and every
\* User turn is followed by its Assistant turn.
C3_NoPartialAppend ==
    /\ [](\A s \in Sessions :
            LET h == chat[s].history
            IN  /\ Len(h) % 2 = 0
                /\ \A i \in 1..Len(h) :
                      h[i].role = "User"
                          => (i < Len(h) /\ h[i + 1].role = "Assistant"))
    /\ [][\A s \in Sessions :
             LET d == Len(chat'[s].history) - Len(chat[s].history)
             IN  /\ pc'[s] = "awaiting" => d = 0
                 /\ (pc[s] = "awaiting" /\ pc'[s] = "idle") => d \in {0, 2}]_vars

\* a request is in flight on a session that already holds an exchange
C3_Witness ==
    \E s \in Sessions :
        /\ pc[s] = "awaiting"
        /\ response[s] = NoResponse
        /\ Len(chat[s].history) = 2

\* C4: clear empties the history whatever its length and leaves the model
\* handle, the system prompt and the sampler settings as they were; the next
\* send submits only the system message and the new user message.
C4_ClearEmptiesHistoryOnly ==
    /\ [](\A s \in Sessions : lastOp[s] = "clear" => chat[s].history = << >>)
    /\ [][\A s \in Sessions :
             (pc[s] = "idle" /\ lastOp'[s] = "clear")
                 => chat'[s] = [chat[s] EXCEPT !.history = << >>]]_vars
    /\ [][\A s \in Sessions :
             (lastOp[s] = "clear" /\ pc[s] = "idle" /\ pc'[s] = "awaiting")
                 => request'[s].val.messages =
                        << ChatTurn("System", chat[s].system_prompt),
                           ChatTurn("User", user_message'[s].val) >>]_vars

\* a session with a custom system prompt was cleared after a successful send
C4_Witness ==
    \E s \in Sessions :
        /\ lastOp[s] = "clear"
        /\ ret[s].kind = "ok"
        /\ chat[s].system_prompt = CustomSystemPrompt

\* C5: the request send submits for history H and new text T has the message
\* list [System(system_prompt)] ++ H ++ [User(T)], of length len(H) + 2.
C5_RequestIsSystemHistoryUser ==
    \A s \in Sessions :
        pc[s] = "awaiting" =>
            LET h == chat[s].history
                m == request[s].val.messages
            IN  /\ request[s].some
                /\ m = << ChatTurn("System", chat[s].system_prompt) >> \o h
                           \o << ChatTurn("User", user_message[s].val) >>
                /\ Len(m) = Len(h) + 2
                /\ m[1].role = "System"
                /\ m[Len(m)] = ChatTurn("User", user_message[s].val)

\* a request that replays a non-empty history is in flight
C5_Witness ==
    \E s \in Sessions :
        /\ pc[s] = "awaiting"
        /\ Len(chat[s].history) = 2
        /\ Len(request[s].val.messages) = 4

-----------------------------------------------------------------------------
(* Claims about the prompt enhancer, checked under EnhancerSpec *)

WordCount(text) == Len(split_whitespace(text))

\* enhance has returned Ok for the seed and the response the state holds
EnhanceReturnedOk == e_pc = "idle" /\ e_ret.kind = "ok"

\* the trimmed text of the response the state holds
Enhanced == EnhancedText(e_response.content)

\* C6: for every seed and every successful response the string enhance
\* returns has at most 50 whitespace-separated words, on the fallback path
\* and on the enhanced path.
C6_ResultWithinWordBudget ==
    EnhanceReturnedOk => WordCount(e_ret.text) <= 50

\* a response of more than 50 words passed the quality gate and was cut
C6_Witness ==
    /\ EnhanceReturnedOk
    /\ str_len(Enhanced) > str_len(seed_prompt.val) + 4
    /\ WordCount(Enhanced) > 50
    /\ WordCount(e_ret.text) = 50

\* C7 as stated: for every seed and every successful response (empty, absent
\* or whitespace-only included) the string enhance returns is non-empty.
C7_ResultNonEmpty ==
    EnhanceReturnedOk => e_ret.text # << >>

\* C7 as amended: the string enhance returns is empty exactly when the seed
\* is the empty string and the trimmed response has at most 4 bytes; for every
\* non-empty seed it is non-empty, whatever the response.
C7_ResultEmptyOnlyForEmptySeed ==
    EnhanceReturnedOk =>
        (e_ret.text = << >>
            <=> (seed_prompt.val = << >> /\ str_len(Enhanced) <= 4))

\* a non-empty seed met a whitespace-only response and came back itself
C7_Witness ==
    /\ EnhanceReturnedOk
    /\ seed_prompt.val # << >>
    /\ e_response.content.some
    /\ e_response.content.val # << >>
    /\ Enhanced = << >>
    /\ e_ret.text = seed_prompt.val

C10_FailureIsNotAFallback ==
    /\ (e_pc = "idle" /\ e_response = ResponseErr) => e_ret = RetErr
    /\ e_ret.kind = "ok" => e_response.kind = "ok"

\* the inference call failed for a non-empty seed and enhance returned Err
C10_Witness ==
    /\ e_pc = "idle"
    /\ e_response = ResponseErr
    /\ e_ret = RetErr
    /\ seed_prompt.some
    /\ seed_prompt.val # << >>

-----------------------------------------------------------------------------
(* Claims about truncate_to_words, checked under TruncateSpec *)

\* no whitespace at either end, and between words exactly one space
SingleSpaced(text) ==
    \A i \in 1..Len(text) :
        IsWhitespace(text[i]) =>
            /\ text[i] = " "
            /\ 1 < i
            /\ i < Len(text)
            /\ ~IsWhitespace(text[i + 1])

\* C9: truncate_to_words(text, N) of a text of more than N words is the first
\* N words of the text, in their order, joined by single spaces; a text of N
\* or fewer words is returned unchanged (N = 50 and more than 50 words: exactly
\* 50 words, taken from the start).
C9_TruncateKeepsFirstWords ==
    t_out.some =>
        LET words == split_whitespace(t_text)
            out == t_out.val
        IN  IF Len(words) > t_max_words
            THEN /\ split_whitespace(out) = SubSeq(words, 1, t_max_words)
                 /\ WordCount(out) = t_max_words
                 /\ SingleSpaced(out)
            ELSE out = t_text

\* a text of more than 50 words, not single-spaced, was cut to 50 words
C9_Witness ==
    /\ t_out.some
    /\ t_max_words = 50
    /\ WordCount(t_text) > 50
    /\ ~SingleSpaced(t_text)
    /\ WordCount(t_out.val) = 50

-----------------------------------------------------------------------------
(* Claims about the presets and the interactive loop, checked under RunSpec *)

\* C11: the ChatModel an EnhancerModel preset converts to has the identical
\* model ID and the identical loading strategy (same builder kind, same dtype,
\* same in-situ quantization) as the preset has in the prompt enhancer.
\* Violated: the chat session loads both Gemma presets through
\* VisionModelBuilder, the prompt enhancer through TextModelBuilder.
C11_ChatPresetLoadsLikeEnhancerPreset ==
    run_built.some =>
        LET preset == unwrap_or_default(run_model)
            configured == EnhancerModel_configure_builder(preset)
        IN  /\ ChatModel_model_id(ChatModel_from(preset)) =
                   EnhancerModel_model_id(preset)
            /\ run_built.val.model_id = configured.model_id
            /\ LoadingStrategy(run_built.val) = LoadingStrategy(configured)

\* C20: in the interactive loop a blank line and /help change nothing of the
\* session and submit no request; /clear empties the history and submits no
\* request; /exit, /quit and the end of the input end the loop with Ok and
\* without a request; every other line submits exactly one request, built from
\* the trimmed line; a failed send ends the loop with the error; once the loop
\* ended no further step is taken.
C20_LoopDispatch ==
    [][ LET s == LoopSession
            read == lines_read' # lines_read
            line == loop_line'
            input == Trim(loop_line')
        IN  /\ loop_pc \notin { "exited", "failed" }
            /\ read => (lines_read' = lines_read + 1 /\ loop_pc = "prompt")
            /\ (read /\ line # << >> /\ (input = << >> \/ input = CmdHelp)) =>
                   (UNCHANGED chatVars /\ loop_pc' = "prompt")
            /\ (read /\ input = CmdClear) =>
                   /\ chat'[s] = [chat[s] EXCEPT !.history = << >>]
                   /\ UNCHANGED << pc, request >>
                   /\ request[s] = None
                   /\ loop_pc' = "prompt"
            /\ (read /\ (line = << >> \/ input = CmdExit \/ input = CmdQuit)) =>
                   (UNCHANGED chatVars /\ loop_pc' = "exited" /\ run_ret' = RunOk)
            /\ (read /\ line # << >>
                     /\ input \notin { << >>, CmdHelp, CmdClear, CmdExit, CmdQuit }) =>
                   /\ request[s] = None
                   /\ request'[s] = Some(BuildChatRequest(chat[s], input))
                   /\ chat' = chat
                   /\ loop_pc' = "sending"
            /\ (request' # request /\ request'[s].some) => read
            /\ (pc[s] = "awaiting" /\ pc'[s] = "idle" /\ ret'[s] = RetErr) =>
                   (chat' = chat /\ loop_pc' = "failed" /\ run_ret' = RetErr)
            /\ (pc[s] = "awaiting" /\ pc'[s] = "idle" /\ ret'[s].kind = "ok") =>
                   loop_pc' = "prompt"
      ]_vars

\* a send succeeded, /clear emptied the history, then a send failed and ended
\* the loop
C20_Witness ==
    /\ loop_pc = "failed"
    /\ run_ret = RetErr
    /\ ret[LoopSession] = RetErr
    /\ lastOp[LoopSession] = "send"
    /\ chat[LoopSession].history = << >>
    /\ lines_read = 3

-----------------------------------------------------------------------------
(* Further claims about the chat session, checked under ChatSpec *)

\* C12: a session is always Idle or AwaitingResponse; send moves it from Idle
\* to AwaitingResponse and back to Idle on success and on failure; a session
\* never has more than one request in flight; clear is applied only in Idle.
C12_IdleOrAwaiting ==
    /\ [](\A s \in Sessions :
             /\ pc[s] \in { "idle", "awaiting" }
             /\ (pc[s] = "awaiting") <=> request[s].some
             /\ (pc[s] = "awaiting" /\ response[s] # NoResponse) =>
                    ENABLED (SendFailed(s) \/ SendCompleted(s)))
    /\ [][ \A s \in Sessions :
             /\ (pc[s] = "idle" /\ pc'[s] = "awaiting") =>
                    (request'[s].some /\ lastOp'[s] = "send")
             /\ (pc[s] = "awaiting" /\ pc'[s] = "idle") =>
                    (ret'[s].kind \in { "ok", "err" } /\ request'[s] = None)
             /\ (request'[s] # request[s] /\ request'[s].some) =>
                    (pc[s] = "idle" /\ request[s] = None)
             /\ (chat'[s].history # chat[s].history /\ chat'[s].history = << >>) =>
                    (pc[s] = "idle" /\ pc'[s] = "idle")
             /\ (lastOp'[s] = "clear" /\ lastOp[s] # "clear") =>
                    (pc[s] = "idle" /\ pc'[s] = "idle")
         ]_vars

\* one session came back to Idle from a failed send and was cleared while the
\* other one is suspended with its reply at hand
C12_Witness ==
    \E s \in Sessions, t \in Sessions :
        /\ s # t
        /\ pc[s] = "awaiting"
        /\ response[s].kind = "ok"
        /\ request[s].some
        /\ pc[t] = "idle"
        /\ ret[t] = RetErr
        /\ lastOp[t] = "clear"

\* C13: the sampler settings are those of the construction in every state, and
\* every submitted request carries exactly them.
C13_SamplerSettingsFixed ==
    \A s \in Sessions :
        /\ chat[s].temperature = ChatTemperature
        /\ chat[s].top_p = ChatTopP
        /\ chat[s].max_len = ChatMaxLen
        /\ request[s].some =>
               /\ request[s].val.temperature = Some(ChatTemperature)
               /\ request[s].val.top_p = Some(ChatTopP)
               /\ request[s].val.max_len = Some(ChatMaxLen)

\* a request submitted after a clear and a successful send, by a session with
\* a custom system prompt
C13_Witness ==
    \E s \in Sessions :
        /\ pc[s] = "awaiting"
        /\ lastOp[s] = "send"
        /\ nSends[s] = 1
        /\ chat[s].system_prompt = CustomSystemPrompt
        /\ Len(request[s].val.messages) = 4
        /\ request[s].val.max_len = Some(ChatMaxLen)

\* C19: with two sessions interleaved, a session's history changes only by its
\* own completed send (which appends its own message and its own reply) or by
\* its own clear, and no step of one session changes the other session's
\* history, system prompt, sampler settings or call state.
C19_SessionsAreIsolated ==
    [][ \A s \in Sessions :
          /\ chat'[s].system_prompt = chat[s].system_prompt
          /\ chat'[s].temperature = chat[s].temperature
          /\ chat'[s].top_p = chat[s].top_p
          /\ chat'[s].max_len = chat[s].max_len
          /\ chat'[s].model = chat[s].model
          /\ chat'[s].history # chat[s].history =>
                \/ /\ pc[s] = "awaiting"
                   /\ pc'[s] = "idle"
                   /\ chat'[s].history =
                          chat[s].history \o
                          << ChatTurn("User", user_message[s].val),
                             ChatTurn("Assistant",
                                      AssistantText(response[s].content)) >>
                \/ /\ pc[s] = "idle"
                   /\ lastOp'[s] = "clear"
                   /\ chat'[s].history = << >>
          /\ (pc'[s] # pc[s] \/ chat'[s] # chat[s] \/ lastOp'[s] # lastOp[s]
                \/ response'[s] # response[s]) =>
                \A t \in Sessions \ { s } :
                    /\ chat'[t] = chat[t]
                    /\ pc'[t] = pc[t]
                    /\ request'[t] = request[t]
                    /\ response'[t] = response[t]
                    /\ ret'[t] = ret[t]
      ]_vars

\* two sessions with different system prompts hold different histories: one
\* two exchanges, the other one exchange sent after its clear
C19_Witness ==
    \E s \in Sessions, t \in Sessions :
        /\ chat[s].system_prompt # chat[t].system_prompt
        /\ nSends[s] = 2
        /\ Len(chat[s].history) = 4
        /\ nSends[t] = 1
        /\ Len(chat[t].history) = 2
        /\ chat[t].history[1] # chat[s].history[1]
        /\ chat[t].history[1] # chat[s].history[3]
        /\ pc[t] = "awaiting"

-----------------------------------------------------------------------------
(* Claim about enhance_for_song, checked under SongSpec *)

\* C14: enhance_for_song(subject, style) submits and returns exactly what
\* enhance(seed) does for the same response, where seed is "subject, style"
\* when a style is given and subject alone otherwise: the same quality gate,
\* the same truncation, the same error.
C14_SongIsEnhanceOfComposedSeed ==
    song_args.some =>
        LET subject == song_args.val.song_title
            style == song_args.val.style
            seed == IF style.some THEN subject \o << ",", " " >> \o style.val
                    ELSE subject
        IN  /\ seed_prompt = Some(seed)
            /\ e_request = Some(BuildEnhanceRequest(enhancer, seed))
            /\ (e_pc = "idle" /\ e_response.kind = "ok") =>
                   e_ret = RetOk(EnhanceResult(seed, e_response.content))
            /\ (e_pc = "idle" /\ e_response.kind # "ok") => e_ret = RetErr
            /\ e_pc = "awaiting" => e_ret = NoRet

\* a 49-word title with a two-word style: the composed seed has 51 words, the
\* reply is degenerate and the seed comes back cut to 50 words
C14_Witness ==
    /\ song_args.some
    /\ song_args.val.song_title = LongTitle
    /\ song_args.val.style = Some(<< "o", "i", "l", " ", "o", "n" >>)
    /\ e_pc = "idle"
    /\ e_ret.kind = "ok"
    /\ IsDegenerate(EnhancedText(e_response.content), seed_prompt.val)
    /\ WordCount(seed_prompt.val) = MAX_PROMPT_WORDS + 1
    /\ WordCount(e_ret.text) = MAX_PROMPT_WORDS

-----------------------------------------------------------------------------
(* Claims about the transcriber, checked under TranscribeSpec *)

\* C15: with audio_duration = sample_count / (sample_rate * channel_count),
\* the real-time factor of a result is inference_time / audio_duration when
\* audio_duration > 0 and +infinity when audio_duration is 0; 1.0 s of
\* inference over 2.0 s of audio gives 0.5.
C15_RealTimeFactor ==
    tr_ret.kind = "ok" =>
        LET result == tr_ret.result
            n == tr_bytes.samples_len
            rc == tr_bytes.sample_rate * tr_bytes.channels
            ms == tr_elapsed
            duration == result.audio_duration_secs
            rtf == real_time_factor(result)
        IN  rc > 0 =>
              /\ duration.kind = "fin"
              /\ duration.num * rc = n * duration.den
              /\ n > 0 => (rtf.kind = "fin" /\ rtf.num * 1000 * n = ms * rc * rtf.den)
              /\ n = 0 => rtf = INFINITY
              /\ (ms = 1000 /\ n = 2 * rc) =>
                     rtf = [kind |-> "fin", num |-> 1, den |-> 2]

\* 4 samples at 1 Hz on 2 channels are 2.0 s of audio; the inference took 1.0 s
C15_Witness ==
    /\ tr_ret.kind = "ok"
    /\ tr_bytes.samples_len = 4
    /\ tr_bytes.sample_rate = 1
    /\ tr_bytes.channels = 2
    /\ tr_elapsed = 1000
    /\ tr_ret.result.audio_duration_secs = [kind |-> "fin", num |-> 2, den |-> 1]
    /\ real_time_factor(tr_ret.result) = [kind |-> "fin", num |-> 1, den |-> 2]

\* C16: when the bytes do not decode or the audio cannot be attached, the call
\* returns an error, no request is submitted and no result is produced; a
\* request is submitted only after decode and attachment succeeded, and a
\* result is returned only after decode, attachment and inference succeeded,
\* in that order.
C16_NoRequestAfterFailedStage ==
    /\ (tr_ret.kind = "err" /\ tr_ret.stage \in { "decode", "attach" }) =>
           (tr_request = None /\ tr_response = NoResponse /\ tr_pc = "idle")
    /\ ((tr_pc = "awaiting" \/ tr_ret # NoRet) /\ ~tr_bytes.decodable) =>
           (tr_ret = TrErr("decode") /\ tr_log = << >>)
    /\ (tr_ret.kind = "err" /\ tr_ret.stage = "attach") => tr_log = << "decode" >>
    /\ tr_request.some =>
           /\ tr_bytes.decodable
           /\ Len(tr_log) >= 3
           /\ SubSeq(tr_log, 1, 3) = << "decode", "attach", "submit" >>
           /\ tr_request.val.audios = << from_bytes(tr_bytes).val >>
    /\ tr_ret.kind = "ok" =>
           /\ tr_log = << "decode", "attach", "submit", "inference" >>
           /\ tr_bytes.decodable
           /\ tr_request.some
           /\ tr_response.kind = "ok"

\* the bytes decoded, the attachment was refused: an error and no request
C16_Witness ==
    /\ tr_ret = TrErr("attach")
    /\ tr_bytes.decodable
    /\ tr_log = << "decode" >>
    /\ tr_request = None
    /\ tr_pc = "idle"

-----------------------------------------------------------------------------
(* Claims about the image command, checked under ImageSpec *)

C18_GeneratedWithinWordBudget ==
    img_generated.some => WordCount(img_generated.val) <= IMAGE_MAX_PROMPT_WORDS

\* the seed path with a 51-word seed and a degenerate reply: enhance fell back
\* to the seed and 50 words reach the diffusion model
C18_Witness ==
    /\ img_prompt = None
    /\ img_seed.some
    /\ WordCount(img_seed.val) = IMAGE_MAX_PROMPT_WORDS + 1
    /\ e_ret.kind = "ok"
    /\ IsDegenerate(EnhancedText(e_response.content), img_seed.val)
    /\ img_generated.some
    /\ WordCount(img_generated.val) = IMAGE_MAX_PROMPT_WORDS
    /\ img_pc = "generating"

====
